---- MODULE Spec2Model ----
(***************************************************************************)
(* Sentiscope: the tone-decision pipeline (services/tone_service.py) and   *)
(* the clarity-scoring engine (services/clarity_service.py).               *)
(*                                                                         *)
(* A text is a sequence of one-character strings.  Confidences are in      *)
(* hundredths, probabilities in thousandths.  gen is the state of a call   *)
(* of generate_with_retry (services/rewrite_service.py), delays in tenths   *)
(* of a second.                                                            *)
(***************************************************************************)
EXTENDS Integers, Sequences, FiniteSets, TLC

VARIABLES business_model, business_vectorizer,
          complaint_model, complaint_vectorizer,
          text, called, ret, loc, env, gen

vars == << business_model, business_vectorizer,
           complaint_model, complaint_vectorizer, text, called, ret, loc, env,
           gen >>

None == "<None>"
Loaded == "loaded"

(***************************************************************************)
(* Characters and Python string primitives                                 *)
(***************************************************************************)
Whitespace == {" ", "\t", "\n"}
WordChars == {"a", "b", "c", "d", "e", "f", "g", "h", "i", "j", "k", "l", "m", "n", "o", "p", "q", "r", "s", "t", "u", "v", "w", "x", "y", "z", "A", "B", "C", "D", "E", "F", "G", "H", "I", "J", "K", "L", "M", "N", "O", "P", "Q", "R", "S", "T", "U", "V", "W", "X", "Y", "Z", "0", "1", "2", "3", "4", "5", "6", "7", "8", "9", "_"}
UpperToLower == ("A" :> "a") @@ ("B" :> "b") @@ ("C" :> "c") @@ ("D" :> "d") @@ ("E" :> "e") @@ ("F" :> "f") @@ ("G" :> "g") @@ ("H" :> "h") @@ ("I" :> "i") @@ ("J" :> "j") @@ ("K" :> "k") @@ ("L" :> "l") @@ ("M" :> "m") @@ ("N" :> "n") @@ ("O" :> "o") @@ ("P" :> "p") @@ ("Q" :> "q") @@ ("R" :> "r") @@ ("S" :> "s") @@ ("T" :> "t") @@ ("U" :> "u") @@ ("V" :> "v") @@ ("W" :> "w") @@ ("X" :> "x") @@ ("Y" :> "y") @@ ("Z" :> "z")

LowerChar(c) == IF c \in DOMAIN UpperToLower THEN UpperToLower[c] ELSE c
Lower(t) == [i \in 1..Len(t) |-> LowerChar(t[i])]

\* p in t  (substring test)
StartsAt(t, i, p) == /\ i + Len(p) - 1 <= Len(t)
                     /\ \A j \in 1..Len(p) : t[i + j - 1] = p[j]
Contains(t, p) == \E i \in 1..(Len(t) - Len(p) + 1) : StartsAt(t, i, p)
ContainsAny(t, ps) == \E p \in ps : Contains(t, p)

\* not text or not text.strip()
\* variant: only the empty string is caught (no strip)
IsBlank_NoStrip(t) == Len(t) = 0

IsBlank(t) == \A i \in 1..Len(t) : t[i] \in Whitespace

\* len(text.split()): the number of maximal runs of non-whitespace
WordCount(t) ==
    Cardinality({ i \in 1..Len(t) : /\ t[i] \notin Whitespace
                                    /\ (i = 1 \/ t[i - 1] \in Whitespace) })

(***************************************************************************)
(* re.search for the pattern shapes the tables use: \b at both ends,       *)
(* literals, \s+ and \w+ in between.                                       *)
(***************************************************************************)
IsWordAt(t, i) == i >= 1 /\ i <= Len(t) /\ t[i] \in WordChars
\* \b between positions i-1 and i
Boundary(t, i) == IsWordAt(t, i - 1) # IsWordAt(t, i)

RECURSIVE MatchFrom(_, _, _, _)
MatchFrom(pat, k, t, i) ==
    IF k > Len(pat) THEN Boundary(t, i)
    ELSE LET e == pat[k] IN
         CASE e.kind = "lit" ->
                StartsAt(t, i, e.s) /\ MatchFrom(pat, k + 1, t, i + Len(e.s))
           [] e.kind = "ws" ->
                \E j \in (i + 1)..(Len(t) + 1) :
                    /\ \A m \in i..(j - 1) : t[m] \in Whitespace
                    /\ MatchFrom(pat, k + 1, t, j)
           [] e.kind = "word" ->
                \E j \in (i + 1)..(Len(t) + 1) :
                    /\ \A m \in i..(j - 1) : t[m] \in WordChars
                    /\ MatchFrom(pat, k + 1, t, j)

Search(pat, t) == \E i \in 1..Len(t) : MatchFrom(pat, 1, t, i) /\ Boundary(t, i)
SearchAny(pats, t) == \E p \in pats : Search(p, t)

(***************************************************************************)
(* Pattern tables (tone_service.py)                                        *)
(***************************************************************************)
ACCUSATORY_PATTERNS ==
    { << [kind |-> "lit", s |-> <<"w", "h", "y">>],
         [kind |-> "ws", s |-> <<>>],
         [kind |-> "lit", s |-> <<"h", "a", "v", "e", "n", "'", "t">>],
         [kind |-> "ws", s |-> <<>>],
         [kind |-> "lit", s |-> <<"y", "o", "u">>] >>,
      << [kind |-> "lit", s |-> <<"w", "h", "y">>],
         [kind |-> "ws", s |-> <<>>],
         [kind |-> "lit", s |-> <<"h", "a", "v", "e", " ", "n", "o", "t">>],
         [kind |-> "ws", s |-> <<>>],
         [kind |-> "lit", s |-> <<"y", "o", "u">>] >>,
      << [kind |-> "lit", s |-> <<"w", "h", "y">>],
         [kind |-> "ws", s |-> <<>>],
         [kind |-> "lit", s |-> <<"d", "i", "d", "n", "'", "t">>],
         [kind |-> "ws", s |-> <<>>],
         [kind |-> "lit", s |-> <<"y", "o", "u">>] >>,
      << [kind |-> "lit", s |-> <<"w", "h", "y">>],
         [kind |-> "ws", s |-> <<>>],
         [kind |-> "lit", s |-> <<"d", "i", "d", " ", "n", "o", "t">>],
         [kind |-> "ws", s |-> <<>>],
         [kind |-> "lit", s |-> <<"y", "o", "u">>] >>,
      << [kind |-> "lit", s |-> <<"t", "h", "i", "s">>],
         [kind |-> "ws", s |-> <<>>],
         [kind |-> "lit", s |-> <<"i", "s">>],
         [kind |-> "ws", s |-> <<>>],
         [kind |-> "lit", s |-> <<"u", "n", "a", "c", "c", "e", "p", "t", "a", "b", "l", "e">>] >>,
      << [kind |-> "lit", s |-> <<"y", "o", "u">>],
         [kind |-> "ws", s |-> <<>>],
         [kind |-> "lit", s |-> <<"s", "h", "o", "u", "l", "d">>],
         [kind |-> "ws", s |-> <<>>],
         [kind |-> "lit", s |-> <<"h", "a", "v", "e">>] >>,
      << [kind |-> "lit", s |-> <<"w", "h", "y">>],
         [kind |-> "ws", s |-> <<>>],
         [kind |-> "lit", s |-> <<"w", "a", "s", "n", "'", "t">>] >>,
      << [kind |-> "lit", s |-> <<"w", "h", "y">>],
         [kind |-> "ws", s |-> <<>>],
         [kind |-> "lit", s |-> <<"i", "s", "n", "'", "t">>] >> }

COMMANDING_PATTERNS ==
    { << [kind |-> "lit", s |-> <<"s", "e", "n", "d">>],
         [kind |-> "ws", s |-> <<>>],
         [kind |-> "lit", s |-> <<"t", "h", "i", "s">>],
         [kind |-> "ws", s |-> <<>>],
         [kind |-> "lit", s |-> <<"n", "o", "w">>] >>,
      << [kind |-> "lit", s |-> <<"s", "e", "n", "d">>],
         [kind |-> "ws", s |-> <<>>],
         [kind |-> "lit", s |-> <<"i", "t">>],
         [kind |-> "ws", s |-> <<>>],
         [kind |-> "lit", s |-> <<"n", "o", "w">>] >>,
      << [kind |-> "lit", s |-> <<"d", "o">>],
         [kind |-> "ws", s |-> <<>>],
         [kind |-> "lit", s |-> <<"t", "h", "i", "s">>],
         [kind |-> "ws", s |-> <<>>],
         [kind |-> "lit", s |-> <<"i", "m", "m", "e", "d", "i", "a", "t", "e", "l", "y">>] >> }

POLITE_MARKERS ==
    { <<"p", "l", "e", "a", "s", "e">>,
      <<"c", "o", "u", "l", "d", " ", "y", "o", "u">>,
      <<"w", "o", "u", "l", "d", " ", "y", "o", "u">>,
      <<"k", "i", "n", "d", "l", "y">>,
      <<"t", "h", "a", "n", "k", " ", "y", "o", "u">>,
      <<"t", "h", "a", "n", "k", "s">>,
      <<"a", "p", "p", "r", "e", "c", "i", "a", "t", "e">>,
      <<"g", "r", "a", "t", "e", "f", "u", "l">> }

APOLOGY_MARKERS ==
    { <<"s", "o", "r", "r", "y">>,
      <<"a", "p", "o", "l", "o", "g", "i", "z", "e">>,
      <<"a", "p", "o", "l", "o", "g", "i", "e", "s">>,
      <<"r", "e", "g", "r", "e", "t">> }

URGENT_WORDS ==
    { <<"u", "r", "g", "e", "n", "t">>,
      <<"a", "s", "a", "p">>,
      <<"i", "m", "m", "e", "d", "i", "a", "t", "e", "l", "y">>,
      <<"d", "e", "a", "d", "l", "i", "n", "e">> }

NEGATIVE_KEYWORDS ==
    { <<"u", "n", "a", "c", "c", "e", "p", "t", "a", "b", "l", "e">>,
      <<"d", "i", "s", "a", "p", "p", "o", "i", "n", "t", "e", "d">>,
      <<"f", "a", "i", "l", "u", "r", "e">>,
      <<"p", "r", "o", "b", "l", "e", "m">>,
      <<"i", "s", "s", "u", "e">>,
      <<"d", "e", "l", "a", "y">>,
      <<"n", "o", " ", "r", "e", "s", "p", "o", "n", "s", "e">> }

SUPPORT_KEYWORDS ==
    { <<"s", "u", "p", "p", "o", "r", "t">>,
      <<"h", "e", "l", "p">>,
      <<"i", "s", "s", "u", "e">>,
      <<"p", "r", "o", "b", "l", "e", "m">>,
      <<"e", "r", "r", "o", "r">>,
      <<"n", "o", "t", " ", "w", "o", "r", "k", "i", "n", "g">>,
      <<"f", "a", "i", "l", "e", "d">>,
      <<"u", "r", "g", "e", "n", "t">>,
      <<"a", "s", "a", "p">>,
      <<"d", "e", "l", "a", "y">>,
      <<"n", "o", " ", "r", "e", "s", "p", "o", "n", "s", "e">>,
      <<"c", "o", "m", "p", "l", "a", "i", "n", "t">> }

RULE_CONFIDENCE == 70

(***************************************************************************)
(* rule_based_tone                                                         *)
(***************************************************************************)
RuleFlags(text0) ==
    LET t == Lower(text0) IN
    [ has_accusatory |-> SearchAny(ACCUSATORY_PATTERNS, t),
      has_commanding |-> SearchAny(COMMANDING_PATTERNS, t),
      has_polite     |-> ContainsAny(t, POLITE_MARKERS),
      has_apology    |-> ContainsAny(t, APOLOGY_MARKERS),
      has_urgent     |-> ContainsAny(t, URGENT_WORDS),
      has_negative   |-> ContainsAny(t, NEGATIVE_KEYWORDS) ]

\* variant: the polite branch is tested before the negative and commanding ones
RuleLabel_PoliteLast(f) ==
    IF f.has_accusatory THEN "harsh"
    ELSE IF f.has_negative THEN "harsh"
    ELSE IF f.has_commanding THEN "firm"
    ELSE IF f.has_polite \/ f.has_apology THEN "polite"
    ELSE "neutral"

RuleLabel(f) ==
    IF f.has_accusatory THEN "harsh"
    ELSE IF f.has_negative /\ ~f.has_polite THEN "harsh"
    ELSE IF f.has_commanding /\ ~f.has_polite THEN "firm"
    ELSE IF f.has_polite \/ f.has_apology THEN "polite"
    ELSE "neutral"

StyleTags(f) ==
    (IF f.has_accusatory THEN <<"accusatory">> ELSE <<>>) \o
    (IF f.has_commanding THEN <<"commanding">> ELSE <<>>) \o
    (IF f.has_polite THEN <<"polite">> ELSE <<>>) \o
    (IF f.has_apology THEN <<"apologetic">> ELSE <<>>) \o
    (IF f.has_urgent THEN <<"urgent">> ELSE <<>>)

RuleReason(f) ==
    IF f.has_accusatory THEN "contains accusatory language"
    ELSE IF f.has_negative /\ ~f.has_polite THEN "negative wording without softening"
    ELSE IF f.has_commanding /\ ~f.has_polite THEN "commanding language"
    ELSE IF f.has_polite \/ f.has_apology THEN "polite or apologetic phrasing"
    ELSE "factual language"

\* the returned dict; explanation is f"Tone classified as {label} because it {reason}."
RuleVerdict(f) ==
    [ label |-> RuleLabel(f),
      confidence |-> RULE_CONFIDENCE,
      style_tags |-> StyleTags(f),
      explanation |-> << RuleLabel(f), RuleReason(f) >> ]

rule_based_tone(text0) == RuleVerdict(RuleFlags(text0))

is_customer_support_email(text0) == ContainsAny(Lower(text0), SUPPORT_KEYWORDS)

(***************************************************************************)
(* safe_ml_predict.  The statistical scorer is an opaque artifact: what it *)
(* does on a text is an input, one of ScorerOutcomes.                      *)
(***************************************************************************)
MlLabels == {"harsh", "firm", "polite", "neutral", "", "angry"}
Probs == {0, 885, 1000}

\* round(float(prob), 2): thousandths to hundredths; a decimal tie is not
\* exactly representable in binary, so it may go either way (tie_up)
IsTie(p) == p % 10 = 5

ScorerOutcomes ==
    [raises : {TRUE}, pred : {""}, prob : {0}, tie_up : {FALSE}] \cup
    { o \in [raises : {FALSE}, pred : MlLabels, prob : Probs, tie_up : BOOLEAN] :
        o.tie_up => IsTie(o.prob) }

Round2(p, tie_up) ==
    IF IsTie(p) THEN (p \div 10) + (IF tie_up THEN 1 ELSE 0)
    ELSE (p + 5) \div 10

\* the result of a call: a returned value, or an exception leaving the call
Return(v) == [raised |-> FALSE, value |-> v]
Raise == [raised |-> TRUE]
\* no call has returned yet
NoResult == [raised |-> FALSE]

\* variant: the except clause is missing, a failing scorer propagates
safe_ml_predict_NoCatch(model, vectorizer, scorer) ==
    IF model = None \/ vectorizer = None THEN Return(<< None, 0 >>)
    ELSE IF scorer.raises THEN Raise
    ELSE Return(<< scorer.pred, Round2(scorer.prob, scorer.tie_up) >>)

safe_ml_predict(model, vectorizer, scorer) ==
    IF model = None \/ vectorizer = None THEN Return(<< None, 0 >>)
    ELSE IF scorer.raises THEN Return(<< None, 0 >>)
    ELSE Return(<< scorer.pred, Round2(scorer.prob, scorer.tie_up) >>)

(***************************************************************************)
(* analyze_tone                                                            *)
(***************************************************************************)
\* ml_label or rule_label
OrElse(a, b) == IF a = None \/ a = "" THEN b ELSE a

\* variant: the harsh override is missing
FinalLabel_NoHarshOverride(rule_label, ml_label) ==
    LET l0 == OrElse(ml_label, rule_label)
        l1 == IF rule_label = "polite" /\ l0 = "neutral" THEN "polite" ELSE l0
    IN IF l1 = "firm" THEN "neutral" ELSE l1

\* variant: a polite rule label overrides every scorer label
FinalLabel_PoliteAlwaysWins(rule_label, ml_label) ==
    LET l0 == OrElse(ml_label, rule_label)
        l1 == IF rule_label = "harsh" THEN "harsh"
              ELSE IF rule_label = "polite" THEN "polite"
              ELSE l0
    IN IF l1 = "firm" THEN "neutral" ELSE l1

\* variant: the firm-to-neutral collapse is missing
FinalLabel_NoCollapse(rule_label, ml_label) ==
    LET l0 == OrElse(ml_label, rule_label)
    IN IF rule_label = "harsh" THEN "harsh"
       ELSE IF rule_label = "polite" /\ l0 = "neutral" THEN "polite"
       ELSE l0

\* variant: the firm-to-neutral collapse runs before the overrides
FinalLabel_CollapseFirst(rule_label, ml_label) ==
    LET l0 == OrElse(ml_label, rule_label)
        l1 == IF l0 = "firm" THEN "neutral" ELSE l0
    IN IF rule_label = "harsh" THEN "harsh"
       ELSE IF rule_label = "polite" /\ l1 = "neutral" THEN "polite"
       ELSE l1

FinalLabel(rule_label, ml_label) ==
    LET l0 == OrElse(ml_label, rule_label)
        l1 == IF rule_label = "harsh" THEN "harsh"
              ELSE IF rule_label = "polite" /\ l0 = "neutral" THEN "polite"
              ELSE l0
    IN IF l1 = "firm" THEN "neutral" ELSE l1

Max(a, b) == IF a >= b THEN a ELSE b
Min(a, b) == IF a <= b THEN a ELSE b

Confidence(ml_conf, rule_conf) == Max(ml_conf, rule_conf)

\* str.capitalize() on the labels that occur
Capitalize(l) ==
    CASE l = "harsh" -> "Harsh" [] l = "firm" -> "Firm" [] l = "polite" -> "Polite"
      [] l = "neutral" -> "Neutral" [] l = "angry" -> "Angry" [] OTHER -> l

Recommended(final_label, needs_rewrite) ==
    IF needs_rewrite
    THEN [name |-> "Professional & Polite", note |-> "Rewrite to remove blame and sound respectful."]
    ELSE [name |-> Capitalize(final_label), note |-> "Tone is appropriate."]

EmptyToneVerdict ==
    [ label |-> "neutral", confidence |-> 0, style_tags |-> <<>>,
      explanation |-> << "No text provided." >>, needs_rewrite |-> FALSE,
      recommended_tone |-> [name |-> "Neutral", note |-> "Add content to analyze."],
      model_used |-> None ]

ToneVerdict(rule, ml, model_used) ==
    LET final_label == FinalLabel(rule.label, ml[1])
        needs_rewrite == final_label = "harsh"
    IN [ label |-> final_label,
         confidence |-> Confidence(ml[2], rule.confidence),
         style_tags |-> rule.style_tags,
         explanation |-> rule.explanation,
         needs_rewrite |-> needs_rewrite,
         recommended_tone |-> Recommended(final_label, needs_rewrite),
         model_used |-> model_used ]

\* a call that returned before computing anything has no locals
NoLocals == [ early |-> TRUE ]

AnalyzeTone ==
    /\ called = "none"
    /\ called' = "analyze_tone"
    /\ IF IsBlank(text)
       THEN /\ ret' = Return(EmptyToneVerdict)
            /\ loc' = NoLocals
            /\ env' = NoLocals
       ELSE /\ loc' = [ early |-> FALSE,
                        flags |-> RuleFlags(text),
                        is_complaint |-> is_customer_support_email(text) ]
            /\ \E scorer \in ScorerOutcomes :
                 LET is_complaint == loc'.is_complaint
                     model == IF is_complaint THEN complaint_model ELSE business_model
                     vectorizer == IF is_complaint THEN complaint_vectorizer
                                                   ELSE business_vectorizer
                     model_used == IF is_complaint THEN "customer_support"
                                                   ELSE "business_email"
                 IN /\ env' = [ early |-> FALSE,
                                scorer_raised |-> (model # None /\ vectorizer # None
                                                     /\ scorer.raises),
                                ml |-> safe_ml_predict(model, vectorizer, scorer) ]
                    /\ ret' = IF env'.ml.raised THEN Raise
                               ELSE Return(ToneVerdict(RuleVerdict(loc'.flags),
                                                       env'.ml.value, model_used))
    /\ UNCHANGED << business_model, business_vectorizer,
                    complaint_model, complaint_vectorizer, text, gen >>

(***************************************************************************)
(* Tables (clarity_service.py)                                             *)
(***************************************************************************)
VAGUE_WORDS ==
    { <<"t", "h", "i", "n", "g", "s">>,
      <<"s", "t", "u", "f", "f">>,
      <<"s", "o", "m", "e", "t", "h", "i", "n", "g">>,
      <<"s", "o", "m", "e", "h", "o", "w">>,
      <<"v", "a", "r", "i", "o", "u", "s">>,
      <<"e", "t", "c">>,
      <<"m", "a", "y", "b", "e">>,
      <<"k", "i", "n", "d", " ", "o", "f">>,
      <<"s", "o", "r", "t", " ", "o", "f">>,
      <<"a", " ", "b", "i", "t">> }

CALL_TO_ACTION_VERBS ==
    { <<"p", "l", "e", "a", "s", "e">>,
      <<"r", "e", "q", "u", "e", "s", "t">>,
      <<"n", "e", "e", "d">>,
      <<"r", "e", "q", "u", "i", "r", "e">>,
      <<"c", "o", "u", "l", "d", " ", "y", "o", "u">>,
      <<"s", "e", "n", "d">>,
      <<"p", "r", "o", "v", "i", "d", "e">>,
      <<"u", "p", "d", "a", "t", "e">>,
      <<"c", "o", "n", "f", "i", "r", "m">>,
      <<"f", "i", "x">> }

PASSIVE_PATTERNS ==
    { << [kind |-> "lit", s |-> <<"w", "a", "s">>],
         [kind |-> "ws", s |-> <<>>],
         [kind |-> "word", s |-> <<>>],
         [kind |-> "lit", s |-> <<"e", "d">>] >>,
      << [kind |-> "lit", s |-> <<"w", "e", "r", "e">>],
         [kind |-> "ws", s |-> <<>>],
         [kind |-> "word", s |-> <<>>],
         [kind |-> "lit", s |-> <<"e", "d">>] >>,
      << [kind |-> "lit", s |-> <<"i", "s">>],
         [kind |-> "ws", s |-> <<>>],
         [kind |-> "word", s |-> <<>>],
         [kind |-> "lit", s |-> <<"e", "d">>] >>,
      << [kind |-> "lit", s |-> <<"h", "a", "s">>],
         [kind |-> "ws", s |-> <<>>],
         [kind |-> "lit", s |-> <<"b", "e", "e", "n">>],
         [kind |-> "ws", s |-> <<>>],
         [kind |-> "word", s |-> <<>>],
         [kind |-> "lit", s |-> <<"e", "d">>] >> }

\* the inline list of the short-message rule
ABRUPT_SOFTENERS ==
    { <<"p", "l", "e", "a", "s", "e">>,
      <<"c", "o", "u", "l", "d">>,
      <<"w", "o", "u", "l", "d">> }

Things == <<"t", "h", "i", "n", "g", "s">>
Stuff == <<"s", "t", "u", "f", "f">>

LONG_SENTENCE_WORDS == 25
TOO_LONG_WORDS == 180
QUITE_LONG_WORDS == 250
ABRUPT_WORDS == 10
ABRUPT_PENALTY == 25
HARD_TO_READ == 50
EASY_TO_READ == 65

IssueLongSentences == "Some sentences are too long and hard to follow."
IssueTooLong == "Message is too long. Consider shortening it."
IssueHardToRead == "Text is difficult to read. Use simpler sentences."
IssueVague == "Vague wording detected. Be more specific."
IssuePassive == "Passive voice reduces clarity. Use active voice."
IssueNoAction == "No clear action or request stated."
IssuePassiveSoft == "Passive voice detected. Consider active voice where possible (optional)."
IssueQuiteLong == "Message is quite long. Consider breaking into bullet points."
IssueAbrupt == "Message too short and abrupt."

(***************************************************************************)
(* split_sentences and the long-sentence filter                            *)
(***************************************************************************)
Terminators == {".", "!", "?"}

\* re.split(r'[.!?]', text): the pieces lie between consecutive cut points
CutPoints(t) == {0, Len(t) + 1} \cup { i \in 1..Len(t) : t[i] \in Terminators }

\* the pieces as <<first, last>> index pairs; s.strip() empty pieces are dropped
split_sentences(t) ==
    LET cuts == CutPoints(t) IN
    { pc \in { << a + 1, b - 1 >> : a \in cuts, b \in cuts } :
        /\ pc[1] <= pc[2] + 1
        /\ \A i \in pc[1]..pc[2] : t[i] \notin Terminators
        /\ (pc[1] - 1) \in cuts /\ (pc[2] + 1) \in cuts
        /\ ~IsBlank(SubSeq(t, pc[1], pc[2])) }

\* len([s for s in sentences if len(s.split()) > 25])
LongSentences(t) ==
    Cardinality({ s \in split_sentences(t) :
                    WordCount(SubSeq(t, s[1], s[2])) > LONG_SENTENCE_WORDS })

(***************************************************************************)
(* analyze_clarity.  Scores are in hundredths; the readability index comes *)
(* from textstat and is an input (in hundredths), or the call raises.      *)
(***************************************************************************)
Readabilities == {-2050, 3075, 4999, 5000, 6500, 12000}
ReadabilityOutcomes ==
    [raises : {TRUE}, value : {0}] \cup [raises : {FALSE}, value : Readabilities]

\* try: textstat.flesch_reading_ease(text) except: 50
Readability(outcome) == IF outcome.raises THEN 50 * 100 ELSE outcome.value

\* int(x): truncation toward zero
Trunc(x) == IF x >= 0 THEN x \div 100 ELSE -((-x) \div 100)

ClarityFeatures(text0) ==
    LET t == Lower(text0) IN
    [ word_count |-> WordCount(text0),
      long_sentences |-> LongSentences(text0),
      vague_hits |-> { w \in VAGUE_WORDS : Contains(t, w) },
      passive_hits |-> SearchAny(PASSIVE_PATTERNS, t),
      call_to_action |-> ContainsAny(t, CALL_TO_ACTION_VERBS),
      softened |-> ContainsAny(t, ABRUPT_SOFTENERS) ]

\* variant: only the hit count is tested, not the two strong words
StrongVague_CountOnly(f) == Cardinality(f.vague_hits) >= 2

StrongVague(f) ==
    Cardinality(f.vague_hits) >= 2 \/ Things \in f.vague_hits \/ Stuff \in f.vague_hits

\* variant: the boundary is inclusive
IsAbrupt_Inclusive(f) == f.word_count <= ABRUPT_WORDS /\ ~f.softened

IsAbrupt(f) == f.word_count < ABRUPT_WORDS /\ ~f.softened

\* issues appended while the heuristics run (before the score is computed)
DetectionIssues(f, readability) ==
    (IF f.long_sentences > 0 THEN << IssueLongSentences >> ELSE <<>>) \o
    (IF f.word_count > TOO_LONG_WORDS THEN << IssueTooLong >> ELSE <<>>) \o
    (IF readability < HARD_TO_READ * 100 THEN << IssueHardToRead >> ELSE <<>>) \o
    (IF f.vague_hits # {} THEN << IssueVague >> ELSE <<>>) \o
    (IF f.passive_hits THEN << IssuePassive >> ELSE <<>>) \o
    (IF ~f.call_to_action THEN << IssueNoAction >> ELSE <<>>)

\* issues appended while the score is computed
ScoringIssues(f) ==
    (IF f.passive_hits THEN << IssuePassiveSoft >> ELSE <<>>) \o
    (IF f.word_count > QUITE_LONG_WORDS THEN << IssueQuiteLong >> ELSE <<>>) \o
    (IF StrongVague(f) THEN << IssueVague >> ELSE <<>>) \o
    (IF IsAbrupt(f) THEN << IssueAbrupt >> ELSE <<>>)

\* variant: the long-sentence penalty is charged once, like the issue
BaseScore_LongOnce(f, readability) ==
    100 * 100
    - (IF f.long_sentences > 0 THEN 5 * 100 ELSE 0)
    - Max(0, (f.word_count - 150) \div 20) * 5 * 100
    - Max(0, 50 * 100 - readability)
    - Cardinality(f.vague_hits) * 5 * 100

\* score after the four base penalties
BaseScore(f, readability) ==
    100 * 100
    - f.long_sentences * 5 * 100
    - Max(0, (f.word_count - 150) \div 20) * 5 * 100
    - Max(0, 50 * 100 - readability)
    - Cardinality(f.vague_hits) * 5 * 100

PassiveStep(score, f) == IF f.passive_hits THEN score - 5 * 100 ELSE score

LengthStep(score, f) ==
    IF f.word_count > QUITE_LONG_WORDS
    THEN score - Max(0, (f.word_count - 200) \div 30) * 5 * 100
    ELSE score

BonusStep(score, readability) ==
    IF readability >= EASY_TO_READ * 100 THEN Min(100 * 100, score + 5 * 100) ELSE score

VagueStep(score, f) ==
    IF StrongVague(f) THEN score - Cardinality(f.vague_hits) * 4 * 100 ELSE score

AbruptStep(score, f) == IF IsAbrupt(f) THEN score - ABRUPT_PENALTY * 100 ELSE score

\* score = max(0, min(100, int(score)))
\* variant: only the upper clamp
ClampScore_NoFloor(score) == Min(100, Trunc(score))

ClampScore(score) == Max(0, Min(100, Trunc(score)))

Summary(score) ==
    IF score >= 75 THEN "Clear and easy to understand." ELSE "Message could be clearer."

EmptyClarityVerdict ==
    [ clarity_score |-> 0, issues |-> << "No text provided" >>,
      summary |-> "No content to analyze." ]

\* the score after each step of the computation, last the value before the clamp
ScoreSteps(f, readability) ==
    LET s1 == BaseScore(f, readability)
        s2 == PassiveStep(s1, f)
        s3 == LengthStep(s2, f)
        s4 == BonusStep(s3, readability)
        s5 == VagueStep(s4, f)
        s6 == AbruptStep(s5, f)
    IN << s1, s2, s3, s4, s5, s6 >>

ClarityVerdict(f, readability) ==
    LET score == ClampScore(ScoreSteps(f, readability)[6]) IN
    [ clarity_score |-> score,
      issues |-> DetectionIssues(f, readability) \o ScoringIssues(f),
      summary |-> Summary(score) ]

AnalyzeClarity ==
    /\ called = "none"
    /\ called' = "analyze_clarity"
    /\ IF IsBlank(text)
       THEN /\ ret' = Return(EmptyClarityVerdict)
            /\ loc' = NoLocals
            /\ env' = NoLocals
       ELSE /\ loc' = [ early |-> FALSE, features |-> ClarityFeatures(text) ]
            /\ \E outcome \in ReadabilityOutcomes :
                 /\ env' = [ early |-> FALSE,
                             readability |-> Readability(outcome),
                             steps |-> ScoreSteps(loc'.features, Readability(outcome)) ]
                 /\ ret' = Return(ClarityVerdict(loc'.features, env'.readability))
    /\ UNCHANGED << business_model, business_vectorizer,
                    complaint_model, complaint_vectorizer, text, gen >>

(***************************************************************************)
(* generate_with_retry (rewrite_service.py)                                *)
(***************************************************************************)
LowerToUpper == ("a" :> "A") @@ ("b" :> "B") @@ ("c" :> "C") @@ ("d" :> "D") @@ ("e" :> "E") @@ ("f" :> "F") @@ ("g" :> "G") @@ ("h" :> "H") @@ ("i" :> "I") @@ ("j" :> "J") @@ ("k" :> "K") @@ ("l" :> "L") @@ ("m" :> "M") @@ ("n" :> "N") @@ ("o" :> "O") @@ ("p" :> "P") @@ ("q" :> "Q") @@ ("r" :> "R") @@ ("s" :> "S") @@ ("t" :> "T") @@ ("u" :> "U") @@ ("v" :> "V") @@ ("w" :> "W") @@ ("x" :> "X") @@ ("y" :> "Y") @@ ("z" :> "Z")

UpperChar(c) == IF c \in DOMAIN LowerToUpper THEN LowerToUpper[c] ELSE c
Upper(t) == [i \in 1..Len(t) |-> UpperChar(t[i])]

TRANSIENT_MARKERS ==
    { <<"5", "0", "3">>,
      <<"O", "V", "E", "R", "L", "O", "A", "D", "E", "D">>,
      <<"U", "N", "A", "V", "A", "I", "L", "A", "B", "L", "E">>,
      <<"4", "2", "9">>,
      <<"L", "I", "M", "I", "T">> }

\* str(e) of the exceptions the try block can raise; the last one is the
\* AttributeError of response.text.strip() when the response carries no text
Err503 == <<"5", "0", "3", " ", "S", "e", "r", "v", "e", "r", " ", "E", "r", "r", "o", "r">>
ErrOverloaded == <<"T", "h", "e", " ", "m", "o", "d", "e", "l", " ", "i", "s", " ", "o", "v", "e", "r", "l", "o", "a", "d", "e", "d", ".">>
ErrUnavailable == <<"S", "e", "r", "v", "i", "c", "e", " ", "U", "n", "a", "v", "a", "i", "l", "a", "b", "l", "e">>
Err429 == <<"4", "2", "9", " ", "T", "o", "o", " ", "M", "a", "n", "y", " ", "R", "e", "q", "u", "e", "s", "t", "s">>
ErrLimit == <<"R", "a", "t", "e", " ", "l", "i", "m", "i", "t", " ", "e", "x", "c", "e", "e", "d", "e", "d">>
ErrBadRequest == <<"4", "0", "0", " ", "B", "a", "d", " ", "R", "e", "q", "u", "e", "s", "t">>
ErrNoText == <<"'", "N", "o", "n", "e", "T", "y", "p", "e", "'", " ", "o", "b", "j", "e", "c", "t", " ", "h", "a", "s", " ", "n", "o", " ", "a", "t", "t", "r", "i", "b", "u", "t", "e", " ", "'", "s", "t", "r", "i", "p", "'">>

ErrorMessages == { Err503, ErrOverloaded, ErrUnavailable, Err429, ErrLimit,
                   ErrBadRequest, ErrNoText }

\* what one pass through the try block does: it returns the text or raises
ProviderOutcomes ==
    { [ok |-> TRUE, err |-> <<>>] } \cup { [ok |-> FALSE, err |-> e] : e \in ErrorMessages }

\* err = str(e).upper(); any(x in err for x in [...])
is_transient(e) == ContainsAny(Upper(e), TRANSIENT_MARKERS)

RECURSIVE Pow2(_)
Pow2(n) == IF n = 0 THEN 1 ELSE 2 * Pow2(n - 1)

\* delay = base_delay * (2 ** (attempt - 1))
Delay(base_delay, attempt) == base_delay * Pow2(attempt - 1)

CallEvent(attempt, outcome) ==
    [ev |-> "call", attempt |-> attempt, ok |-> outcome.ok, err |-> outcome.err, delay |-> 0]
SleepEvent(delay) ==
    [ev |-> "sleep", attempt |-> 0, ok |-> FALSE, err |-> <<>>, delay |-> delay]

\* no call of generate_with_retry is in progress
GenIdle == [ pc |-> "idle", retries |-> 0, base_delay |-> 0, attempt |-> 0,
             log |-> <<>>, result |-> <<>> ]

\* the state on entry: for attempt in range(1, retries + 1)
GenEntry(retries, base_delay) ==
    [ pc |-> "loop", retries |-> retries, base_delay |-> base_delay, attempt |-> 1,
      log |-> <<>>, result |-> <<>> ]

\* variant: the last attempt is retried too (attempt <= retries)
generate_step_RetryLast(g, outcome) ==
    LET called1 == Append(g.log, CallEvent(g.attempt, outcome)) IN
    IF outcome.ok
    THEN [g EXCEPT !.pc = "returned", !.log = called1, !.result = <<"t", "e", "x", "t">>]
    ELSE IF is_transient(outcome.err) /\ g.attempt <= g.retries
    THEN [g EXCEPT !.attempt = g.attempt + 1,
                   !.log = Append(called1, SleepEvent(Delay(g.base_delay, g.attempt)))]
    ELSE [g EXCEPT !.pc = "raised", !.log = called1, !.result = outcome.err]

\* one iteration of the loop: the try block and its except clause
generate_step(g, outcome) ==
    LET called1 == Append(g.log, CallEvent(g.attempt, outcome)) IN
    IF outcome.ok
    THEN [g EXCEPT !.pc = "returned", !.log = called1, !.result = <<"t", "e", "x", "t">>]
    ELSE IF is_transient(outcome.err) /\ g.attempt < g.retries
    THEN [g EXCEPT !.attempt = g.attempt + 1,
                   !.log = Append(called1, SleepEvent(Delay(g.base_delay, g.attempt)))]
    ELSE [g EXCEPT !.pc = "raised", !.log = called1, !.result = outcome.err]

Attempt ==
    /\ gen.pc = "loop"
    /\ gen.attempt <= gen.retries
    /\ \E outcome \in ProviderOutcomes : gen' = generate_step(gen, outcome)
    /\ UNCHANGED << business_model, business_vectorizer, complaint_model,
                    complaint_vectorizer, text, called, ret, loc, env >>

\* the range is exhausted: the function falls off its end and returns None
LoopExhausted ==
    /\ gen.pc = "loop"
    /\ gen.attempt > gen.retries
    /\ gen' = [gen EXCEPT !.pc = "returned", !.result = << None >>]
    /\ UNCHANGED << business_model, business_vectorizer, complaint_model,
                    complaint_vectorizer, text, called, ret, loc, env >>

(***************************************************************************)
(* Inputs                                                                  *)
(***************************************************************************)
MaxFill == 1
MaxBlocks == 3

RECURSIVE Rep(_, _)
Rep(w, n) == IF n = 0 THEN <<>> ELSE w \o Rep(w, n - 1)

PhEmpty == <<>>
PhBlank == <<" ", "\t", "\n">>
PhWhyHavent == <<"W", "h", "y", " ", "h", "a", "v", "e", "n", "'", "t", " ", "y", "o", "u", " ", "r", "e", "p", "l", "i", "e", "d", "?", " ">>
PhUnacceptable == <<"T", "h", "i", "s", " ", "i", "s", " ", "u", "n", "a", "c", "c", "e", "p", "t", "a", "b", "l", "e", ".", " ">>
PhSendNow == <<"s", "e", "n", "d", " ", "i", "t", " ", "n", "o", "w", " ">>
PhDoNow == <<"D", "o", " ", "t", "h", "i", "s", " ", "I", "M", "M", "E", "D", "I", "A", "T", "E", "L", "Y", "!", " ">>
PhPleaseConfirm == <<"P", "l", "e", "a", "s", "e", " ", "c", "o", "n", "f", "i", "r", "m", ",", " ", "t", "h", "a", "n", "k", "s", ".", " ">>
PhSorry == <<"s", "o", "r", "r", "y", " ">>
PhUrgentHelp == <<"u", "r", "g", "e", "n", "t", " ", "h", "e", "l", "p", " ">>
PhScenario == <<"T", "h", "i", "s", " ", "i", "s", " ", "u", "r", "g", "e", "n", "t", ",", " ", "p", "l", "e", "a", "s", "e", " ", "s", "e", "n", "d", " ", "t", "h", "e", " ", "r", "e", "p", "o", "r", "t", " ", "b", "y", " ", "F", "r", "i", "d", "a", "y", ",", " ", "t", "h", "a", "n", "k", " ", "y", "o", "u", ".", " ">>
PhDisappointed == <<"d", "i", "s", "a", "p", "p", "o", "i", "n", "t", "e", "d", " ">>
PhMaybe == <<"m", "a", "y", "b", "e", " ">>
PhCould == <<"c", "o", "u", "l", "d", " ">>
PhWasMoved == <<"i", "t", " ", "w", "a", "s", " ", "m", "o", "v", "e", "d", ".", " ">>
PhStuff9 == Rep(<<"s", "t", "u", "f", "f", " ">>, 9)
PhLong26 == Rep(<<"a", " ">>, 26) \o <<".", " ">>
PhBlock == Rep(<<"a", " ">>, 90) \o <<".", " ">>
Filler == <<"o", "k", " ">>

Phrases == { PhScenario, PhEmpty, PhBlank, PhWhyHavent, PhUnacceptable, PhSendNow, PhDoNow, PhPleaseConfirm, PhSorry, PhUrgentHelp, PhDisappointed, PhMaybe, PhCould, PhWasMoved, PhStuff9, PhLong26 }

ShortTexts == { a \o b \o Rep(Filler, n) : a \in Phrases, b \in Phrases, n \in 0..MaxFill }
LongTexts == { Rep(PhBlock, k) \o a : k \in 1..MaxBlocks, a \in {PhEmpty, PhStuff9, PhPleaseConfirm} }
Texts == ShortTexts \cup LongTexts

\* module import: each pair is loaded inside one try block, model first
LoadOutcomes == { << None, None >>, << Loaded, None >>, << Loaded, Loaded >> }

Init ==
    /\ text \in Texts
    /\ \E b \in LoadOutcomes : business_model = b[1] /\ business_vectorizer = b[2]
    /\ \E c \in LoadOutcomes : complaint_model = c[1] /\ complaint_vectorizer = c[2]
    /\ called = "none"
    /\ ret = NoResult
    /\ loc = NoLocals
    /\ env = NoLocals
    /\ gen = GenIdle

\* the caller takes the result; the next call may follow
Done ==
    /\ called # "none"
    /\ called' = "none"
    /\ ret' = NoResult
    /\ loc' = NoLocals
    /\ env' = NoLocals
    /\ UNCHANGED << business_model, business_vectorizer,
                    complaint_model, complaint_vectorizer, text, gen >>

Next == AnalyzeTone \/ AnalyzeClarity \/ Done

Spec == Init /\ [][Next]_vars

(***************************************************************************)
(* generate_with_retry on its own: the arguments are drawn on entry.  The  *)
(* loop keeps running: every pass through the try block returns or raises, *)
(* and time.sleep returns.                                                 *)
(***************************************************************************)
MaxRetries == 5
BaseDelays == {5, 20}

InitRetry ==
    /\ text = <<>>
    /\ business_model = None /\ business_vectorizer = None
    /\ complaint_model = None /\ complaint_vectorizer = None
    /\ called = "none"
    /\ ret = NoResult
    /\ loc = NoLocals
    /\ env = NoLocals
    /\ \E r \in 0..MaxRetries, b \in BaseDelays : gen = GenEntry(r, b)

NextRetry == Attempt \/ LoopExhausted

SpecRetry == InitRetry /\ [][NextRetry]_vars /\ WF_vars(NextRetry)

(***************************************************************************)
(* Properties                                                              *)
(***************************************************************************)
ToneLabels == {"harsh", "firm", "polite", "neutral"}

\* a call of analyze_tone / analyze_clarity that went past the empty-text check
ToneCall == called = "analyze_tone" /\ ~loc.early
ClarityCall == called = "analyze_clarity" /\ ~loc.early

\* the scorer pair the router selected for the call
RoutedModel == IF loc.is_complaint THEN complaint_model ELSE business_model
RoutedVectorizer == IF loc.is_complaint THEN complaint_vectorizer ELSE business_vectorizer
ScorerUnavailable == RoutedModel = None \/ RoutedVectorizer = None

\* the label the rule engine chose in the call, as its explanation reports it
RuleLabelOfCall == ret.value.explanation[1]

Count(seq, x) == Cardinality({ i \in 1..Len(seq) : seq[i] = x })

\* C1: whenever the rule engine finds an accusatory pattern (more generally,
\* whenever its label is harsh), analyze_tone returns label harsh and
\* needs_rewrite = true, whatever the statistical scorer did.
C1_HarshRuleWins ==
    (ToneCall /\ (loc.flags.has_accusatory \/ RuleLabel(loc.flags) = "harsh"))
        => /\ ~ret.raised
           /\ ret.value.label = "harsh"
           /\ ret.value.needs_rewrite = TRUE

\* an accusatory text for which a loaded scorer answered polite with
\* probability 1, and the verdict is harsh all the same
C1_Witness ==
    /\ ToneCall
    /\ loc.flags.has_accusatory
    /\ env.ml.value = << "polite", 100 >>
    /\ ret.value.label = "harsh"
    /\ ret.value.needs_rewrite

\* C2: the label analyze_tone returns is always one of harsh, firm, polite,
\* neutral, also when the scorer returns an arbitrary label string.
C2_LabelInEnum ==
    (called = "analyze_tone" /\ ~ret.raised) => ret.value.label \in ToneLabels

\* C3 (as stated): a text that contains "please" and matches no accusatory
\* pattern and no negative keyword is never labelled harsh, whatever the
\* scorer returns.
C3_PleaseNeverHarsh ==
    (ToneCall /\ ~loc.flags.has_accusatory /\ ~loc.flags.has_negative
              /\ Contains(Lower(text), <<"p", "l", "e", "a", "s", "e">>))
        => ret.value.label # "harsh"

\* C3 (amended): for such a text analyze_tone returns harsh exactly when the
\* scorer itself predicted harsh; the rule engine never makes it harsh.
C3_PleaseHarshOnlyFromScorer ==
    (ToneCall /\ ~loc.flags.has_accusatory /\ ~loc.flags.has_negative
              /\ Contains(Lower(text), <<"p", "l", "e", "a", "s", "e">>))
        => /\ RuleLabelOfCall = "polite"
           /\ (ret.value.label = "harsh") <=> (env.ml.value[1] = "harsh")

C3_Witness ==
    /\ ToneCall
    /\ ~loc.flags.has_accusatory /\ ~loc.flags.has_negative
    /\ Contains(Lower(text), <<"p", "l", "e", "a", "s", "e">>)
    /\ env.ml.value[1] = "harsh"
    /\ ret.value.label = "harsh"

\* C4 (as stated): with the routed scorer unavailable, the final label equals
\* the label rule_based_tone chooses for the text.
C4_UnavailableEqualsRule ==
    (ToneCall /\ ScorerUnavailable)
        => ret.value.label = rule_based_tone(text).label

\* C4 (amended): with the routed scorer unavailable, the final label is the
\* label rule_based_tone chooses, except that firm is returned as neutral.
C4_UnavailableEqualsCollapsedRule ==
    (ToneCall /\ ScorerUnavailable)
        => /\ env.ml.value[1] = None
           /\ ret.value.label = IF rule_based_tone(text).label = "firm"
                                THEN "neutral"
                                ELSE rule_based_tone(text).label

\* a commanding text (rule label firm) analysed without a scorer
C4_Witness ==
    /\ ToneCall /\ ScorerUnavailable
    /\ RuleLabelOfCall = "firm"
    /\ ret.value.label = "neutral"

\* C5: for an empty or whitespace-only text analyze_tone returns neutral, 0.0,
\* needs_rewrite false without running rules, router or scorer; analyze_clarity
\* returns score 0, issues ["No text provided"], summary "No content to
\* analyze."; neither raises.
C5_EmptyText ==
    ((\A i \in 1..Len(text) : text[i] \in Whitespace) /\ called # "none")
        => /\ ~ret.raised
           /\ loc = NoLocals /\ env = NoLocals
           /\ called = "analyze_tone" =>
                /\ ret.value.label = "neutral"
                /\ ret.value.confidence = 0
                /\ ret.value.needs_rewrite = FALSE
           /\ called = "analyze_clarity" =>
                /\ ret.value.clarity_score = 0
                /\ ret.value.issues = << "No text provided" >>
                /\ ret.value.summary = "No content to analyze."

\* a whitespace-only (not empty) text went through analyze_tone
C5_Witness ==
    /\ called = "analyze_tone"
    /\ Len(text) > 0
    /\ \A i \in 1..Len(text) : text[i] \in Whitespace
    /\ ret.value.confidence = 0

\* C6: the confidence analyze_tone returns lies in [0,1] and the clarity_score
\* analyze_clarity returns is an integer in [0,100], for every combination of
\* text features and readability value.
C6_Ranges ==
    /\ (called = "analyze_tone" /\ ~ret.raised)
          => ret.value.confidence \in 0..100
    /\ (called = "analyze_clarity" /\ ~ret.raised)
          => ret.value.clarity_score \in 0..100

\* the penalties drove the score below zero before the final clamp
C6_Witness ==
    /\ ClarityCall
    /\ env.readability < 0
    /\ env.steps[6] < 0
    /\ ret.value.clarity_score = 0

\* C7: a call whose routed scorer is missing its model or its vectorizer, or
\* whose prediction raises, gets the prediction (none, 0.0), raises nothing,
\* and returns a complete verdict: label from the rule engine alone,
\* confidence 0.7.
C7_DegradedScorer ==
    (ToneCall /\ (ScorerUnavailable \/ env.scorer_raised))
        => /\ env.ml = Return(<< None, 0 >>)
           /\ ~ret.raised
           /\ DOMAIN ret.value = { "label", "confidence", "style_tags", "explanation",
                                   "needs_rewrite", "recommended_tone", "model_used" }
           /\ ret.value.label = IF RuleLabel(loc.flags) = "firm" THEN "neutral"
                                ELSE RuleLabel(loc.flags)
           /\ ret.value.confidence = 70

\* a loaded scorer raised during prediction
C7_Witness ==
    /\ ToneCall
    /\ env.scorer_raised
    /\ ~ret.raised
    /\ ret.value.confidence = 70

\* C8: the abruptness issue is appended and 25 subtracted exactly when
\* word_count < 10 and the lowercased text contains none of please, could,
\* would.
C8_AbruptRule ==
    ClarityCall =>
        LET abrupt == /\ WordCount(text) < 10
                      /\ ~Contains(Lower(text), <<"p", "l", "e", "a", "s", "e">>)
                      /\ ~Contains(Lower(text), <<"c", "o", "u", "l", "d">>)
                      /\ ~Contains(Lower(text), <<"w", "o", "u", "l", "d">>)
        IN /\ Count(ret.value.issues, IssueAbrupt) = (IF abrupt THEN 1 ELSE 0)
           /\ env.steps[6] = env.steps[5] - (IF abrupt THEN 25 * 100 ELSE 0)

\* the boundary: exactly 10 words, no softener, no abruptness issue
C8_Witness ==
    /\ ClarityCall
    /\ loc.features.word_count = 10
    /\ ~loc.features.softened
    /\ Count(ret.value.issues, IssueAbrupt) = 0
    /\ env.steps[6] = env.steps[5]

\* C9: with n >= 1 sentences of more than 25 words exactly one long-sentence
\* issue is appended, as the first entry, and the score penalty is 5 * n; with
\* n = 0 there is none.
C9_LongSentences ==
    ClarityCall =>
        LET n == loc.features.long_sentences
            f0 == [loc.features EXCEPT !.long_sentences = 0]
        IN /\ n >= 1 => /\ Count(ret.value.issues, IssueLongSentences) = 1
                        /\ ret.value.issues[1] = IssueLongSentences
           /\ n = 0 => Count(ret.value.issues, IssueLongSentences) = 0
           /\ BaseScore(f0, env.readability) - env.steps[1] = 5 * 100 * n

\* three long sentences, one issue
C9_Witness ==
    /\ ClarityCall
    /\ loc.features.long_sentences = 3
    /\ Count(ret.value.issues, IssueLongSentences) = 1

\* C10: the rule label is the first match in the order accusatory -> harsh,
\* negative and not polite -> harsh, commanding and not polite -> firm,
\* polite or apology -> polite, else neutral; urgent plays no part; style_tags
\* lists every fired flag among accusatory, commanding, polite, apologetic,
\* urgent.
C10_RulePriority ==
    ToneCall =>
        LET f == loc.flags
            tags == { ret.value.style_tags[i] : i \in 1..Len(ret.value.style_tags) }
        IN /\ RuleLabelOfCall =
                (IF f.has_accusatory THEN "harsh"
                 ELSE IF f.has_negative /\ ~f.has_polite THEN "harsh"
                 ELSE IF f.has_commanding /\ ~f.has_polite THEN "firm"
                 ELSE IF f.has_polite \/ f.has_apology THEN "polite"
                 ELSE "neutral")
           /\ (f.has_polite /\ (f.has_negative \/ f.has_commanding) /\ ~f.has_accusatory)
                 => RuleLabelOfCall = "polite"
           /\ tags = { tg \in {"accusatory", "commanding", "polite", "apologetic", "urgent"} :
                         \/ tg = "accusatory" /\ f.has_accusatory
                         \/ tg = "commanding" /\ f.has_commanding
                         \/ tg = "polite" /\ f.has_polite
                         \/ tg = "apologetic" /\ f.has_apology
                         \/ tg = "urgent" /\ f.has_urgent }

\* polite, negative and urgent together: labelled polite, tagged polite + urgent
C10_Witness ==
    /\ ToneCall
    /\ loc.flags.has_polite /\ loc.flags.has_negative /\ loc.flags.has_urgent
    /\ ~loc.flags.has_accusatory
    /\ RuleLabelOfCall = "polite"
    /\ ret.value.style_tags = << "polite", "urgent" >>

C13_PoliteRuleScorerLabel ==
    (ToneCall /\ RuleLabelOfCall = "polite" /\ env.ml.value[1] # None)
        => ret.value.label =
             (IF env.ml.value[1] = "firm" THEN "neutral"
              ELSE IF env.ml.value[1] = "neutral" THEN "polite"
              ELSE env.ml.value[1])

\* C13 (amended): the same, for every non-empty scorer label; an empty (falsy)
\* scorer label counts as absent and the rule label polite is returned.
C13_PoliteRuleNonEmptyScorerLabel ==
    (ToneCall /\ RuleLabelOfCall = "polite" /\ env.ml.value[1] # None)
        => ret.value.label =
             (IF env.ml.value[1] = "firm" THEN "neutral"
              ELSE IF env.ml.value[1] = "neutral" THEN "polite"
              ELSE IF env.ml.value[1] = "" THEN "polite"
              ELSE env.ml.value[1])

\* polite rule label, scorer says firm: the verdict is neutral, not polite
C13_Witness ==
    /\ ToneCall
    /\ RuleLabelOfCall = "polite"
    /\ env.ml.value[1] = "firm"
    /\ ret.value.label = "neutral"

\* the error messages the retry rule names: 503 / overloaded / unavailable /
\* 429 / limit
TransientMessages == { Err503, ErrOverloaded, ErrUnavailable, Err429, ErrLimit }

CallIndices == { i \in 1..Len(gen.log) : gen.log[i].ev = "call" }

GenFinished == gen.pc \in {"returned", "raised"}

\* what holds of the calls made so far in a call with retries >= 1
RetryLogOK ==
    gen.retries >= 1 =>
      /\ Cardinality(CallIndices) <= gen.retries
      /\ \A i \in CallIndices :
            LET c == gen.log[i] IN
            \* the calls are numbered 1, 2, ... in order
            /\ c.attempt = Cardinality({ j \in CallIndices : j <= i })
            \* a successful call is the last event and the function returned
            /\ c.ok => (i = Len(gen.log) /\ gen.pc = "returned")
            \* a later call follows a transient failure and the backoff sleep
            /\ c.attempt > 1 =>
                  /\ i >= 3
                  /\ gen.log[i - 1].ev = "sleep"
                  /\ gen.log[i - 1].delay = gen.base_delay * Pow2(c.attempt - 2)
                  /\ gen.log[i - 2].ev = "call"
                  /\ gen.log[i - 2].attempt = c.attempt - 1
                  /\ ~gen.log[i - 2].ok
                  /\ gen.log[i - 2].err \in TransientMessages
            \* a non-transient error, or any error on the last attempt, is
            \* re-raised and nothing follows
            /\ (~c.ok /\ (c.err \notin TransientMessages \/ c.attempt = gen.retries))
                  => /\ i = Len(gen.log)
                     /\ gen.pc = "raised"
                     /\ gen.result = c.err
      /\ gen.pc = "returned" =>
            /\ Len(gen.log) > 0
            /\ gen.log[Len(gen.log)].ev = "call" /\ gen.log[Len(gen.log)].ok
      /\ gen.pc = "raised" =>
            /\ Len(gen.log) > 0
            /\ gen.log[Len(gen.log)].ev = "call" /\ ~gen.log[Len(gen.log)].ok

\* C12: generate_with_retry (retries >= 1) always terminates after at most
\* `retries` provider calls: it returns at the first successful call; every
\* call after the first directly follows a transient failure and a sleep of
\* base_delay * 2^(attempt - 1); a non-transient error, or a transient one on
\* the last attempt, is re-raised with no further call.
C12_RetryTerminates == []RetryLogOK /\ <>GenFinished

\* two transient failures (sleeps of 2.0 s and 4.0 s), then success on the
\* third call
C12_Witness ==
    /\ gen.pc = "returned"
    /\ gen.retries = 5 /\ gen.base_delay = 20
    /\ Cardinality(CallIndices) = 3
    /\ gen.log[2].delay = 20 /\ gen.log[4].delay = 40
    /\ gen.log[5].ok
====
